---- MODULE Spec2Model ----
(***************************************************************************)
(* Model of extract_zip.py: the ExtractZip session (constructor, extract,  *)
(* close, the with-block protocol and the finalizer) acting on a zip       *)
(* archive handle and on a small filesystem tree.                          *)
(*                                                                         *)
(* Strings that the code inspects are sequences of lexemes: a path is a    *)
(* sequence of names and "/" separators, a date string and a date format   *)
(* are sequences of digit runs, literal characters and directives.         *)
(***************************************************************************)
EXTENDS Integers, Sequences, FiniteSets, TLC

VARIABLES
    zip_file,   \* self.zip_file: "unset", "open" (ZipFile.fp set) or "closed"
    df,         \* self.df: the loaded table, [cols, rows]
    closed,     \* self._closed: "unset", "False" or "True"
    pc,         \* "new", "ready" (between calls), "extracting", "dead"
    ref,        \* the caller holds a reference (the constructor returned)
    scope,      \* the with block: "none", "in" or "left"
    pending,    \* exception propagating in the caller inside the with block
    blockExc,   \* exception that left the with block
    cur,        \* index of the row the extract loop is at
    run,        \* the extract call in progress: [fmt, open, fs]
    fs,         \* the filesystem tree
    effects,    \* rows of the current extract call that changed the filesystem
    reads,      \* rows of the current extract call that called zip_file.read
    lastCall,   \* the last call that finished, with the state it was made in
    hist        \* finished extract calls: [fmt, open, fs, result]

vars == <<zip_file, df, closed, pc, ref, scope, pending, blockExc, cur, run,
          fs, effects, reads, lastCall, hist>>

----------------------------------------------------------------------------
\* Bounds of the model.

MaxRows == 2        \* rows of a manifest
MaxExtracts == 2    \* extract calls on one session

----------------------------------------------------------------------------
\* Paths and the filesystem.

Sep == "/"

P_o == <<"o">>
P_od == <<"o", "/">>
P_of == <<"o", "/", "f">>
P_ofd == <<"o", "/", "f", "/">>
DestPaths == {P_o, P_od, P_of, P_ofd}

\* str(out_path).endswith('/')
EndsWithSep(p) == Len(p) > 0 /\ p[Len(p)] = Sep

\* The names of a path, separators dropped: the node the path resolves to.
IsName(c) == c # Sep
Comps(p) == SelectSeq(p, IsName)

Nodes == {Comps(p) : p \in DestPaths}
Ancestors(k) == {SubSeq(k, 1, n) : n \in 1..(Len(k) - 1)}

NoNode == [kind |-> "none", data |-> <<>>, atime |-> 0, mtime |-> 0]
DirNode == [kind |-> "dir", data |-> <<>>, atime |-> 0, mtime |-> 0]
FileNode(d, a, m) == [kind |-> "file", data |-> d, atime |-> a, mtime |-> m]

\* The shallowest ancestor of k that is not a directory, <<>> when all are.
FirstBadAncestor(t, k) ==
    LET bad == {a \in Ancestors(k) : t[a].kind # "dir"}
    IN IF bad = {} THEN <<>>
       ELSE CHOOSE a \in bad : \A b \in bad : Len(a) <= Len(b)

\* open(out_path, 'wb'): the error it raises, "ok" when it opens.
OpenWbError(t, p) ==
    LET k == Comps(p)
        a == FirstBadAncestor(t, k)
    IN IF a # <<>>
       THEN IF t[a].kind = "file" THEN "NotADirectoryError"
            ELSE "FileNotFoundError"
       ELSE IF t[k].kind = "dir" THEN "IsADirectoryError" ELSE "ok"

\* Mode 'wb' truncates: the new content is what f.write(data) wrote.
WriteBytesAppend(old, data) == old \o data
WriteBytes(old, data) == data

\* with open(out_path, 'wb') as f: f.write(data); os.utime(out_path, (c, m))
WriteFile(t, p, data, c, m) ==
    [t EXCEPT ![Comps(p)] = FileNode(WriteBytes(t[Comps(p)].data, data), c, m)]

\* os.makedirs(out_path, exist_ok=True): the error it raises, "ok" otherwise.
MakeDirsErrorStrict(t, p) ==
    LET k == Comps(p)
    IN IF \E a \in Ancestors(k) : t[a].kind = "file" THEN "NotADirectoryError"
       ELSE IF t[k].kind # "none" THEN "FileExistsError" ELSE "ok"
MakeDirsError(t, p) ==
    LET k == Comps(p)
    IN IF \E a \in Ancestors(k) : t[a].kind = "file" THEN "NotADirectoryError"
       ELSE IF t[k].kind = "file" THEN "FileExistsError" ELSE "ok"

\* os.makedirs: the leaf and every missing ancestor become directories.
MakeDirs(t, p) ==
    LET k == Comps(p)
    IN [n \in Nodes |->
          IF n \in (Ancestors(k) \cup {k}) /\ t[n].kind = "none"
          THEN DirNode ELSE t[n]]

----------------------------------------------------------------------------
\* Dates: datetime.strptime(s, date_format) and time.mktime(...timetuple()).

NoMatch == 0 - 1

Years == {"1970", "1971"}
Seconds == {"01", "02"}
NumVal(tok) ==
    CASE tok = "1970" -> 1970
      [] tok = "1971" -> 1971
      [] tok = "01" -> 1
      [] tok = "02" -> 2

SecondsPerYear == 31536000

\* The epoch seconds of the fields strptime found; fields it did not find
\* default to 1900-01-01T00:00:00, which the formats below never leave unset.
RECURSIVE StrpTime(_, _)
StrpTime(s, f) ==
    IF f = <<>> THEN (IF s = <<>> THEN 0 ELSE NoMatch)
    ELSE IF s = <<>> THEN NoMatch
    ELSE LET rest == StrpTime(Tail(s), Tail(f))
         IN IF rest = NoMatch THEN NoMatch
            ELSE IF Head(f) = "%Y"
                 THEN IF Head(s) \in Years
                      THEN (NumVal(Head(s)) - 1970) * SecondsPerYear + rest
                      ELSE NoMatch
            ELSE IF Head(f) = "%S"
                 THEN IF Head(s) \in Seconds THEN NumVal(Head(s)) + rest
                      ELSE NoMatch
            ELSE IF Head(s) = Head(f) THEN rest ELSE NoMatch

FmtT == <<"%Y", "T", "%S">>
FmtDash == <<"%Y", "-", "%S">>
Formats == {FmtT, FmtDash}

D1 == <<"1970", "T", "01">>
D2 == <<"1970", "T", "02">>
D3 == <<"1971", "T", "01">>
DDash == <<"1970", "-", "01">>

----------------------------------------------------------------------------
\* The archive and the manifests.

ArchiveNames == {"a.txt", "b.txt"}
ArchiveData(n) == IF n = "a.txt" THEN <<1>> ELSE <<2, 3>>

InputCol == "input"
OutputCol == "output"
CreationDateCol == "creation_date"
ModifiedDateCol == "modified_date"
RequiredCols == {InputCol, OutputCol, CreationDateCol, ModifiedDateCol}

Row(i, o, c, m) ==
    [input |-> i, output |-> o, creation_date |-> c, modified_date |-> m]

Rows ==
    {Row("a.txt", p, D1, D2) : p \in DestPaths}
    \cup {Row("b.txt", P_of, D3, D1)}
    \cup {Row("zz", P_od, D1, D2), Row("a.txt", P_o, D1, DDash)}

PlainRows == {Row("a.txt", P_o, D1, D2), Row("a.txt", P_od, D1, D2)}

SeqsUpTo(S, n) == UNION {[1..k -> S] : k \in 0..n}

\* A manifest file: readable or not, its header and its data rows.
ManifestFiles ==
    {[readable |-> TRUE, cols |-> RequiredCols, rows |-> r] :
        r \in SeqsUpTo(Rows, MaxRows)}
    \cup {[readable |-> TRUE, cols |-> RequiredCols \ {c}, rows |-> r] :
        c \in RequiredCols, r \in SeqsUpTo(PlainRows, MaxRows) \ {<<>>}}
    \cup {[readable |-> FALSE, cols |-> {}, rows |-> <<>>]}

NoDf == [cols |-> {}, rows |-> <<>>]

----------------------------------------------------------------------------
\* The session.

\* Unopened -> Open -> Closed, as self._closed records it.
SessionState ==
    IF closed = "False" THEN "Open"
    ELSE IF closed = "True" THEN "Closed" ELSE "Unopened"

NoCall == [op |-> "none", result |-> "ok", stage |-> "none", row |-> 0,
           before |-> "Unopened", zipBefore |-> "unset"]
Call(op, result, stage, row) ==
    [op |-> op, result |-> result, stage |-> stage, row |-> row,
     before |-> SessionState, zipBefore |-> zip_file]

\* The initial trees: empty, or directory o holding an old file o/f.
EmptyFS == [n \in Nodes |-> NoNode]
InitTrees ==
    {EmptyFS,
     [EmptyFS EXCEPT ![<<"o">>] = DirNode,
                     ![<<"o", "f">>] = FileNode(<<9, 9>>, 5, 5)]}

Init ==
    /\ zip_file = "unset"
    /\ df = NoDf
    /\ closed = "unset"
    /\ pc = "new"
    /\ ref = FALSE
    /\ scope = "none"
    /\ pending = "none"
    /\ blockExc = "none"
    /\ cur = 0
    /\ fs \in InitTrees
    /\ run = [fmt |-> <<>>, open |-> FALSE, fs |-> fs]
    /\ effects = <<>>
    /\ reads = <<>>
    /\ lastCall = NoCall
    /\ hist = <<>>

\* __init__: open the archive, read the manifest, store the column names,
\* set _closed. An exception leaves the attributes assigned so far.
Construct(zipOk, mf, useWith) ==
    /\ pc = "new"
    /\ pc' = "ready"
    /\ IF ~zipOk
       THEN /\ lastCall' = Call("construct", "BadZipFile", "archive", 0)
            /\ UNCHANGED <<zip_file, df, closed, ref, scope>>
       ELSE IF ~mf.readable
       THEN /\ zip_file' = "open"
            /\ lastCall' = Call("construct", "ParserError", "manifest", 0)
            /\ UNCHANGED <<df, closed, ref, scope>>
       ELSE /\ zip_file' = "open"
            /\ df' = [cols |-> mf.cols, rows |-> mf.rows]
            /\ closed' = "False"
            /\ ref' = TRUE
            /\ scope' = IF useWith THEN "in" ELSE "none"
            /\ lastCall' = Call("construct", "ok", "none", 0)
    /\ UNCHANGED <<pending, blockExc, cur, run, fs, effects, reads, hist>>

\* getattr(self, "_closed", True)
GetClosedDefaultFalse(c) == IF c = "unset" THEN FALSE ELSE c = "True"
GetClosed(c) == IF c = "unset" THEN TRUE ELSE c = "True"

\* self.zip_file.close(): ZipFile.close drops its file object.
ZipCloseKeepsOpen(z) == z
ZipClose(z) == IF z = "open" THEN "closed" ELSE z

\* close(): [zip_file, closed, result] after the call.
CloseBody ==
    IF ~GetClosed(closed)
    THEN [zip_file |-> ZipClose(zip_file),
          closed |-> "True",
          result |-> IF zip_file = "unset" THEN "AttributeError" ELSE "ok"]
    ELSE [zip_file |-> zip_file, closed |-> closed, result |-> "ok"]

----------------------------------------------------------------------------
\* extract(date_format).

Outcome(result, stage, read, effect, t) ==
    [result |-> result, stage |-> stage, read |-> read, effect |-> effect,
     fs |-> t]

\* Lines 110-117: read the entry, then make the directory or write the file
\* and set its times to (c, m).
ReadAndWrite(row, z, t, c, m) ==
    IF z # "open" THEN Outcome("ValueError", "read", TRUE, FALSE, t)
    ELSE IF row.input \notin ArchiveNames
    THEN Outcome("KeyError", "read", TRUE, FALSE, t)
    ELSE IF EndsWithSep(row.output)
    THEN IF MakeDirsError(t, row.output) # "ok"
         THEN Outcome(MakeDirsError(t, row.output), "write", TRUE, FALSE, t)
         ELSE Outcome("ok", "none", TRUE, TRUE, MakeDirs(t, row.output))
    ELSE IF OpenWbError(t, row.output) # "ok"
         THEN Outcome(OpenWbError(t, row.output), "write", TRUE, FALSE, t)
         ELSE Outcome("ok", "none", TRUE, TRUE,
                      WriteFile(t, row.output, ArchiveData(row.input), c, m))

\* One iteration of the loop, lines 95-117, with the dates parsed last.
ProcessRowReadFirst(row, fmt, z, t) ==
    LET c == StrpTime(row.creation_date, fmt)
        m == StrpTime(row.modified_date, fmt)
    IN IF z # "open" \/ row.input \notin ArchiveNames
       THEN ReadAndWrite(row, z, t, c, m)
       ELSE IF c = NoMatch \/ m = NoMatch
       THEN Outcome("ValueError", "parse", TRUE, FALSE, t)
       ELSE ReadAndWrite(row, z, t, c, m)

\* One iteration of the loop, lines 95-117: both dates are parsed before the
\* archive is read.
ProcessRow(row, fmt, z, t) ==
    LET c == StrpTime(row.creation_date, fmt)
        m == StrpTime(row.modified_date, fmt)
    IN IF c = NoMatch \/ m = NoMatch
       THEN Outcome("ValueError", "parse", FALSE, FALSE, t)
       ELSE ReadAndWrite(row, z, t, c, m)

\* The extract call returns or raises.
FinishExtract(r, result, stage, row, t) ==
    /\ pc' = "ready"
    /\ cur' = 0
    /\ lastCall' = Call("extract", result, stage, row)
    /\ hist' = Append(hist, [fmt |-> r.fmt, open |-> r.open, fs |-> t,
                             result |-> result])
    /\ pending' = IF result # "ok" /\ scope = "in" THEN result ELSE "none"

\* Lines 87-94: select the four columns and start the loop.
ExtractBegin(fmt) ==
    /\ pc = "ready"
    /\ ref
    /\ pending = "none"
    /\ Len(hist) < MaxExtracts
    /\ run' = [fmt |-> fmt, open |-> (closed = "False"), fs |-> fs]
    /\ effects' = <<>>
    /\ reads' = <<>>
    /\ IF ~(RequiredCols \subseteq df.cols)
       THEN FinishExtract(run', "KeyError", "columns", 0, fs)
       ELSE IF df.rows = <<>>
       THEN FinishExtract(run', "ok", "none", 0, fs)
       ELSE /\ pc' = "extracting"
            /\ cur' = 1
            /\ UNCHANGED <<lastCall, hist, pending>>
    /\ UNCHANGED <<zip_file, df, closed, ref, scope, blockExc, fs>>

\* Lines 95-117 for the row the loop is at.
ExtractRow ==
    /\ pc = "extracting"
    /\ LET out == ProcessRow(df.rows[cur], run.fmt, zip_file, fs)
       IN /\ fs' = out.fs
          /\ reads' = IF out.read THEN Append(reads, cur) ELSE reads
          /\ effects' = IF out.effect THEN Append(effects, cur) ELSE effects
          /\ IF out.result # "ok"
             THEN FinishExtract(run, out.result, out.stage, cur, out.fs)
             ELSE IF cur = Len(df.rows)
             THEN FinishExtract(run, "ok", "none", cur, out.fs)
             ELSE /\ cur' = cur + 1
                  /\ UNCHANGED <<pc, lastCall, hist, pending>>
    /\ UNCHANGED <<zip_file, df, closed, ref, scope, blockExc, run>>

----------------------------------------------------------------------------
\* close(), __exit__ and __del__.

\* An explicit close() by the caller.
Close ==
    /\ pc = "ready"
    /\ ref
    /\ pending = "none"
    /\ LET c == CloseBody
       IN /\ zip_file' = c.zip_file
          /\ closed' = c.closed
          /\ lastCall' = Call("close", c.result, "none", 0)
    /\ UNCHANGED <<df, pc, ref, scope, pending, blockExc, cur, run, fs,
                   effects, reads, hist>>

\* __exit__: close(), then return False, so an exception goes on to the caller.
ExitBlock ==
    /\ pc = "ready"
    /\ scope = "in"
    /\ LET c == CloseBody
       IN /\ zip_file' = c.zip_file
          /\ closed' = c.closed
          /\ lastCall' = Call("exit", c.result, "none", 0)
          /\ blockExc' = IF pending # "none" THEN pending ELSE
                         IF c.result # "ok" THEN c.result ELSE "none"
    /\ scope' = "left"
    /\ pending' = "none"
    /\ UNCHANGED <<df, pc, ref, cur, run, fs, effects, reads, hist>>

\* __del__: close() with every exception swallowed; the object is gone.
Del ==
    /\ pc = "ready"
    /\ scope # "in"
    /\ LET c == CloseBody
       IN /\ zip_file' = c.zip_file
          /\ closed' = c.closed
          /\ lastCall' = Call("del", c.result, "none", 0)
    /\ pc' = "dead"
    /\ ref' = FALSE
    /\ UNCHANGED <<df, scope, pending, blockExc, cur, run, fs, effects, reads,
                   hist>>

Next ==
    \/ \E zipOk \in BOOLEAN, mf \in ManifestFiles, useWith \in BOOLEAN :
          Construct(zipOk, mf, useWith)
    \/ \E fmt \in Formats : ExtractBegin(fmt)
    \/ ExtractRow
    \/ Close
    \/ ExitBlock
    \/ Del

Spec == Init /\ [][Next]_vars

----------------------------------------------------------------------------
\* Vocabulary of the properties.

CloseOps == {"close", "exit", "del"}

\* The extract call that just returned or raised is described by run,
\* effects, reads and lastCall.
ExtractDone == pc = "ready" /\ lastCall.op = "extract"

IsDirRow(r) == EndsWithSep(r.output)
GoodDates(r, fmt) ==
    /\ StrpTime(r.creation_date, fmt) # NoMatch
    /\ StrpTime(r.modified_date, fmt) # NoMatch

\* The first row whose dates do not match fmt, 0 when every row matches.
FirstBadDate(rows, fmt) ==
    LET bad == {k \in 1..Len(rows) : ~GoodDates(rows[k], fmt)}
    IN IF bad = {} THEN 0 ELSE CHOOSE k \in bad : \A j \in bad : k <= j

WithAncestors(k) == Ancestors(k) \cup {k}
NoFileInWay(t, k) == \A n \in WithAncestors(k) : t[n].kind # "file"

\* Every row names an archive entry and has dates matching fmt.
ValidManifest(d, fmt) ==
    /\ RequiredCols \subseteq d.cols
    /\ \A k \in 1..Len(d.rows) :
          d.rows[k].input \in ArchiveNames /\ GoodDates(d.rows[k], fmt)

\* No destination is wanted both as a file and as a directory, by the rows
\* or by the tree extract starts from.
FileKeys(rows) ==
    {Comps(rows[k].output) : k \in {j \in 1..Len(rows) : ~IsDirRow(rows[j])}}
DirKeys(rows) ==
    UNION {IF IsDirRow(rows[k]) THEN WithAncestors(Comps(rows[k].output))
           ELSE Ancestors(Comps(rows[k].output)) : k \in 1..Len(rows)}
NoKindConflict(t, rows) ==
    /\ FileKeys(rows) \cap DirKeys(rows) = {}
    /\ \A k \in FileKeys(rows) : t[k].kind # "dir"
    /\ \A k \in DirKeys(rows) : t[k].kind # "file"

----------------------------------------------------------------------------
\* C1: every extract call on a Closed session fails and makes no filesystem
\* effect, whatever the manifest, an empty one included.
C1_ClosedExtractFails ==
    (ExtractDone /\ lastCall.before = "Closed") =>
        /\ lastCall.result # "ok"
        /\ effects = <<>>
        /\ fs = run.fs

\* C2: close on a session that is Closed or never reached Open raises nothing
\* and changes nothing; the only change close makes is Open -> Closed.
C2_CloseIdempotent ==
    lastCall.op \in CloseOps =>
        /\ lastCall.before # "Open" =>
              /\ lastCall.result = "ok"
              /\ SessionState = lastCall.before
              /\ zip_file = lastCall.zipBefore
        /\ lastCall.before = "Open" =>
              /\ lastCall.result = "ok"
              /\ SessionState = "Closed"

C2_Witness ==
    /\ lastCall.op = "close"
    /\ lastCall.before = "Closed"
    /\ Len(hist) > 0

\* C3: once the with block is left the archive handle is released, whether
\* extract returned, raised (the error leaves the block) or was never called.
C3_ScopeReleases ==
    /\ scope = "left" => zip_file = "closed" /\ closed = "True"
    /\ (scope = "left" /\ lastCall.op = "exit") =>
          blockExc = (IF hist # <<>> /\ hist[Len(hist)].result # "ok"
                      THEN hist[Len(hist)].result ELSE "none")

C3_Witness ==
    /\ scope = "left"
    /\ lastCall.op = "exit"
    /\ lastCall.before = "Open"
    /\ blockExc # "none"
    /\ effects # <<>>

\* C4: after a construction that aborted with the archive already open, a
\* close (explicit or by the finalizer) releases the archive handle.
C4_AbortedConstructReleased ==
    (lastCall.op \in CloseOps /\ lastCall.before = "Unopened") =>
        zip_file # "open"

\* C5: a manifest lacking one of the four configured columns makes the
\* constructor fail: no ready session is returned for it.
C5_MissingColumnAtLoad ==
    ref => RequiredCols \subseteq df.cols

\* C6: a file row with an existing entry and matching dates, whose path is
\* not taken by a directory or blocked by a file, leaves its file written
\* with the entry's bytes and times (creation, modified) under directories.
C6_Step ==
    LET r == df.rows[cur]
        k == Comps(r.output)
    IN (/\ pc = "extracting"
        /\ ~IsDirRow(r)
        /\ r.input \in ArchiveNames
        /\ zip_file = "open"
        /\ GoodDates(r, run.fmt)
        /\ fs[k].kind # "dir"
        /\ \A a \in Ancestors(k) : fs[a].kind # "file") =>
           /\ \A a \in Ancestors(k) : fs'[a].kind = "dir"
           /\ fs'[k] = FileNode(ArchiveData(r.input),
                                StrpTime(r.creation_date, run.fmt),
                                StrpTime(r.modified_date, run.fmt))
\* C6: every step of extract on such a file row writes the file.
C6_FileRowWritten == [][C6_Step]_vars

\* C7 as stated: a directory row makes its directory with no archive read,
\* whatever entry the row names.
C7_OriginalStep ==
    LET r == df.rows[cur]
        k == Comps(r.output)
    IN (/\ pc = "extracting"
        /\ IsDirRow(r)
        /\ zip_file = "open"
        /\ GoodDates(r, run.fmt)
        /\ NoFileInWay(fs, k)) =>
           /\ \A n \in WithAncestors(k) : fs'[n].kind = "dir"
           /\ reads' = reads
\* C7 as stated: every step of extract on a directory row makes the
\* directory without reading the archive.
C7_Original == [][C7_OriginalStep]_vars

\* C7: a directory row never makes a file and sets no times: it changes the
\* tree only by turning its missing path and ancestors into directories.  When
\* its dates match, its entry is in the open archive and no file is in the
\* way, the entry is read and the directory exists afterwards with all its
\* ancestors, also when it existed before.
C7_Step ==
    LET r == df.rows[cur]
        k == Comps(r.output)
    IN (pc = "extracting" /\ IsDirRow(r)) =>
        /\ \A n \in Nodes :
              \/ fs'[n] = fs[n]
              \/ /\ n \in WithAncestors(k)
                 /\ fs[n].kind = "none"
                 /\ fs'[n] = DirNode
        /\ (/\ GoodDates(r, run.fmt)
            /\ zip_file = "open"
            /\ r.input \in ArchiveNames
            /\ NoFileInWay(fs, k)) =>
               /\ \A n \in WithAncestors(k) : fs'[n].kind = "dir"
               /\ reads' = Append(reads, cur)
               /\ effects' = Append(effects, cur)
               /\ pc' = "extracting" \/ lastCall'.result = "ok"
\* C7, amended: every step of extract on a directory row reads the entry and
\* then only makes directories.
C7_DirRow == [][C7_Step]_vars

C7_Witness ==
    /\ ExtractDone
    /\ lastCall.result = "ok"
    /\ run.fs[<<"o">>].kind = "none"
    /\ fs[<<"o", "f">>].kind = "dir"
    /\ \E k \in 1..Len(effects) : df.rows[effects[k]].output = P_ofd

\* C8: extract never goes past the first row whose dates do not match the
\* format; at that row it raises before reading the archive and leaves the
\* tree, with what earlier rows wrote, as it is.
C8_Step ==
    (pc = "extracting" /\ ~GoodDates(df.rows[cur], run.fmt)) =>
        /\ fs' = fs
        /\ reads' = reads
        /\ effects' = effects
        /\ pc' = "ready"
        /\ lastCall'.op = "extract"
        /\ lastCall'.result = "ValueError"
        /\ lastCall'.stage = "parse"
        /\ lastCall'.row = cur
\* C8: the loop never passes the first row with a bad date and aborts there
\* without reading or writing.
C8_DateErrorAborts ==
    /\ [](pc = "extracting" =>
            \/ FirstBadDate(df.rows, run.fmt) = 0
            \/ cur <= FirstBadDate(df.rows, run.fmt))
    /\ [][C8_Step]_vars

C8_Witness ==
    /\ ExtractDone
    /\ lastCall.stage = "parse"
    /\ lastCall.row = 2
    /\ effects = <<1>>
    /\ fs # run.fs

\* C9: on an Open session a manifest whose rows all name archive entries and
\* have matching dates is extracted to the end, one effect per row, in order.
C9_AllRowsInOrder ==
    (/\ ExtractDone
     /\ run.open
     /\ ValidManifest(df, run.fmt)
     /\ NoKindConflict(run.fs, df.rows)) =>
        /\ lastCall.result = "ok"
        /\ effects = [k \in 1..Len(df.rows) |-> k]

\* C10: a second extract on the same Open session with the same format
\* leaves the tree exactly as the first one left it.
C10_Idempotent ==
    \A j \in 2..Len(hist) :
        (/\ hist[j].fmt = hist[j - 1].fmt
         /\ hist[j].open
         /\ hist[j - 1].open) => hist[j].fs = hist[j - 1].fs

C10_Witness ==
    /\ Len(hist) = 2
    /\ hist[1].fmt = hist[2].fmt
    /\ hist[1].open /\ hist[2].open
    /\ hist[2].result = "ok"
    /\ Len(df.rows) = 2
    /\ df.rows[1].output = df.rows[2].output
    /\ df.rows[1].input # df.rows[2].input
    /\ fs[<<"o", "f">>].data # <<9, 9>>
    /\ fs[<<"o", "f">>].kind = "file"

====
